---- MODULE Spec2Model ----
(***************************************************************************)
(* Model of python-scripts/merge_google_takeout.py: the pipeline that      *)
(* validates the environment, then for every takeout-*.tgz archive         *)
(* extracts it into a scratch directory, merges the scratch directory into *)
(* the destination with rsync -avu and removes the scratch directory, with *)
(* a dry run and a confirmation prompt before the first real merge.        *)
(*                                                                         *)
(* A directory tree is a function from the paths of its files to their     *)
(* [size, mtime].  The scratch directory (temp_dir) and the destination    *)
(* (dest_dir) are distinct directories, neither inside the other.          *)
(***************************************************************************)
EXTENDS Integers, Sequences, FiniteSets, TLC

\* ------------------------------------------------------------------ bounds
\* At most this many takeout-*.tgz files are found in the source directory.
MaxArchives == 2
\* Relative paths of files inside archives, scratch and destination.
Paths == {"a", "b"}
\* File sizes and modification times.
Sizes == {1, 2}
Times == {1, 2}

\* The sortable part of an archive file name takeout-<digits>.tgz, as the
\* sequence of its digits: takeout-1.tgz, takeout-10.tgz, takeout-2.tgz.
ArchiveNames == {<<1>>, <<1, 0>>, <<2>>}

File == [size : Sizes, mtime : Times]
Trees == UNION {[D -> File] : D \in SUBSET Paths}
EmptyTree == [p \in {} |-> [size |-> 1, mtime |-> 1]]
SmallTrees == {t \in Trees : Cardinality(DOMAIN t) <= 1}

\* What the user may type at the prompt, as sequences of characters.
Responses ==
    {<<"y">>, <<"Y">>, <<" ", "y", " ">>, <<"n">>, <<"N">>, <<>>, <<"y", "e", "s">>}

VARIABLES
    drive_exists,      \* /Volumes/KINGSTON exists
    source_exists,     \* the source directory exists
    found,             \* the names matched by source_dir.glob("takeout-*.tgz")
    rsync_available,   \* `rsync --version` succeeds
    pc,                \* position of run(): validate, extract, preview, prompt,
                       \* merge, cleanup, summary, exited
    tgz_files,         \* the list validate() returned
    i,                 \* index (from 1) of the archive being processed
    members,           \* the files extract() wrote from the archive being processed
    scratch,           \* temp_dir: [exists, files]
    dest,              \* the tree under dest_dir
    exit_status,       \* process exit status, -1 while running
    report,            \* what the run reported last: none, cancelled, summary, fatal
    error,             \* the exception that ended the run, "none" otherwise
    archives_processed,\* the number _print_summary logged, 0 when it did not run
    run_log,           \* the file log_file: <<kind, tag, paths>> entries
    dryrun_log,        \* the file log_file.with_suffix('.dryrun.log')
    trace,             \* history: the external calls made, <<op, archive, ok>>
    archive_paths,     \* history: the paths held by the archives extracted so far
    dest0              \* history: dest when the run started

vars == <<drive_exists, source_exists, found, rsync_available, pc, tgz_files, i,
          members, scratch, dest, exit_status, report, error, archives_processed,
          run_log, dryrun_log, trace, archive_paths, dest0>>

env == <<drive_exists, source_exists, found, rsync_available, dest0>>

\* The history of archive contents changes only when an archive is extracted.
hist == <<env, archive_paths>>

\* ------------------------------------------------------------ pure helpers
Min(a, b) == IF a <= b THEN a ELSE b

\* Python's str/Path ordering on names that differ only in their digits:
\* the first differing digit decides, and a proper prefix sorts first
\* ("1.tgz" < "10.tgz" because "." sorts before every digit).
LexLess(a, b) ==
    \E k \in 1..(Min(Len(a), Len(b)) + 1) :
        /\ \A j \in 1..(k - 1) : a[j] = b[j]
        /\ \/ k > Len(a) /\ k <= Len(b)
           \/ k <= Len(a) /\ k <= Len(b) /\ a[k] < b[k]

RECURSIVE SortedDesc(_)
SortedDesc(S) ==
    IF S = {} THEN <<>>
    ELSE LET m == CHOOSE x \in S : \A y \in S \ {x} : LexLess(y, x)
         IN  <<m>> \o SortedDesc(S \ {m})

\* sorted(source_dir.glob("takeout-*.tgz"))
RECURSIVE Sorted(_)
Sorted(S) ==
    IF S = {} THEN <<>>
    ELSE LET m == CHOOSE x \in S : \A y \in S \ {x} : LexLess(x, y)
         IN  <<m>> \o Sorted(S \ {m})

\* tar.extract(member, temp_dir) for every member in T: an extracted file
\* replaces the file at its path, every other file stays.
Overlay(base, T) ==
    [p \in (DOMAIN base) \cup (DOMAIN T) |-> IF p \in DOMAIN T THEN T[p] ELSE base[p]]

\* The files of T at the paths in D.
Restrict(T, D) == [p \in D |-> T[p]]

\* ------------------------------------------------------- the prompt answer
IsSpace(c) == c = " "

RECURSIVE LStrip(_)
LStrip(s) == IF s # <<>> /\ IsSpace(Head(s)) THEN LStrip(Tail(s)) ELSE s

RECURSIVE RStrip(_)
RStrip(s) ==
    IF s # <<>> /\ IsSpace(s[Len(s)]) THEN RStrip(SubSeq(s, 1, Len(s) - 1)) ELSE s

\* str.strip()
Strip(s) == RStrip(LStrip(s))

LowerChar(c) == IF c = "Y" THEN "y" ELSE IF c = "N" THEN "n" ELSE c

\* str.lower()
Lower(s) == [k \in 1..Len(s) |-> LowerChar(s[k])]

AnyAnswer(response) == TRUE

\* preview_merge's result once input() returned: response == 'y'
Affirmative(response) == Lower(Strip(response)) = <<"y">>

\* ------------------------------------------------------------------- rsync
NeedsTransferIgnoringTimes(s, d) == TRUE

NeedsTransferWithoutUpdateFlag(s, d) == s.size # d.size \/ s.mtime # d.mtime

\* rsync's decision for a file present on both sides under -avu: -u skips a
\* file whose destination copy is newer; otherwise the quick check transfers
\* it unless size and mtime are both equal.
NeedsTransfer(s, d) ==
    /\ ~(d.mtime > s.mtime)
    /\ (s.size # d.size \/ s.mtime # d.mtime)

\* The files of src that rsync -avu src/ dst selects for transfer.
Qualifying(src, dst) ==
    {p \in DOMAIN src : p \notin DOMAIN dst \/ NeedsTransfer(src[p], dst[p])}

TransferredWithDelete(src, dst, done) ==
    [p \in ((DOMAIN dst) \cap (DOMAIN src)) \cup done |->
        IF p \in done THEN src[p] ELSE dst[p]]

\* dst after the files in `done` were transferred (-a keeps size and mtime).
Transferred(src, dst, done) ==
    [p \in (DOMAIN dst) \cup done |-> IF p \in done THEN src[p] ELSE dst[p]]

RunRsyncIgnoringDryRun(src, dst, dry_run, done) == Transferred(src, dst, done)

\* DirectoryMerger._run_rsync: the destination after the invocation; with
\* --dry-run nothing is written.
RunRsync(src, dst, dry_run, done) ==
    IF dry_run THEN dst ELSE Transferred(src, dst, done)

\* ----------------------------------------------------------------- scratch
Absent == [exists |-> FALSE, files |-> EmptyTree]

KeepScratch(s) == s

\* TakeoutExtractor.cleanup
Cleanup(s) == IF s.exists THEN Absent ELSE s

\* TakeoutExtractor.extract with the members in T written: mkdir(exist_ok)
\* keeps whatever the directory already holds.
Extracted(s, T) == [exists |-> TRUE, files |-> Overlay(s.files, T)]

\* -------------------------------------------------------------- validation
FirstFailedCheckSkippingRsync(drive, source, files, rsync) ==
    IF ~drive THEN "drive"
    ELSE IF ~source THEN "source"
    ELSE IF files = {} THEN "no_archives"
    ELSE "ok"

FirstFailedCheckSourceFirst(drive, source, files, rsync) ==
    IF ~source THEN "source"
    ELSE IF ~drive THEN "drive"
    ELSE IF files = {} THEN "no_archives"
    ELSE IF ~rsync THEN "rsync"
    ELSE "ok"

\* ValidationService.validate: the first check that raises, "ok" when none.
FirstFailedCheck(drive, source, files, rsync) ==
    IF ~drive THEN "drive"
    ELSE IF ~source THEN "source"
    ELSE IF files = {} THEN "no_archives"
    ELSE IF ~rsync THEN "rsync"
    ELSE "ok"

\* ------------------------------------------------------------ orchestrator
PreviewEveryArchive(idx) == TRUE

\* run(): `if i == 0` (the model counts archives from 1)
NeedsPreview(idx) == idx = 1

ExitZero(raised) == 0

ProcessedOneLess(files) == Len(files) - 1

\* run(): self._print_summary(start_time, len(tgz_files))
ProcessedCount(files) == Len(files)

\* main(): sys.exit(1) in the except branches, a plain return otherwise
ExitStatus(raised) == IF raised THEN 1 ELSE 0

Event(op, arc, ok) == <<op, arc, ok>>

\* ----------------------------------------------------------------- logging
\* One logging.info / logging.error record of the run log.
Rec(msg) == <<"record", msg, {}>>

\* The captured output of one rsync invocation: the files it itemized.
RsyncOutput(arc, itemized) == <<"rsync", arc, itemized>>

\* logging.FileHandler(log_file): every record is appended to the file.
Logged(log, recs) == log \o recs

\* _run_rsync: `with open(log_file_path, 'w') as log: log.write(output)`
Written(log, output) == <<output>>

\* _print_rsync_output: the itemized files that already existed in the
\* destination ('>f' lines with a size or time change) are logged as updates.
UpdateRecords(itemized, dst, dry_run) ==
    IF itemized \cap DOMAIN dst = {} THEN <<>>
    ELSE <<<<"record", IF dry_run THEN "would update" ELSE "updated",
             itemized \cap DOMAIN dst>>>>

\* cleanup(): "Cleaned up temp" is logged only when the directory existed.
CleanupRecords(s) == IF s.exists THEN <<Rec("cleaned")>> ELSE <<>>

\* validate(): the record each check logs when it passes.
PassedRecords(check) ==
    LET all == <<Rec("drive ok"), Rec("source ok"), Rec("found"), Rec("rsync ok")>>
        n == CASE check = "drive" -> 0
               [] check = "source" -> 1
               [] check = "no_archives" -> 2
               [] check = "rsync" -> 3
               [] OTHER -> 4
    IN  SubSeq(all, 1, n)

Current == tgz_files[i]

Init ==
    /\ drive_exists \in BOOLEAN
    /\ source_exists \in BOOLEAN
    /\ rsync_available \in BOOLEAN
    /\ found \in {S \in SUBSET ArchiveNames : Cardinality(S) <= MaxArchives}
    /\ ~source_exists => found = {}
    /\ dest \in SmallTrees
    /\ scratch \in {Absent} \cup {[exists |-> TRUE, files |-> t] : t \in SmallTrees}
    /\ dest0 = dest
    /\ pc = "validate"
    /\ tgz_files = <<>>
    /\ i = 1
    /\ members = EmptyTree
    /\ exit_status = -1
    /\ report = "none"
    /\ error = "none"
    /\ archives_processed = 0
    /\ run_log = <<>>
    /\ dryrun_log = <<>>
    /\ trace = <<>>
    /\ archive_paths = {}

\* An exception leaves run() through `except Exception: ... raise` and main()
\* through `except Exception: ... sys.exit(1)`.
Fatal(e) ==
    /\ pc' = "exited"
    /\ error' = e
    /\ report' = "fatal"
    /\ exit_status' = ExitStatus(TRUE)

\* preview_merge() returned False: "Merge cancelled by user", cleanup, return.
Cancel ==
    /\ pc' = "exited"
    /\ report' = "cancelled"
    /\ scratch' = Cleanup(scratch)
    /\ exit_status' = ExitStatus(FALSE)
    /\ UNCHANGED error

ExtractSwallows ==
    /\ pc' = IF NeedsPreview(i) THEN "preview" ELSE "merge"
    /\ UNCHANGED <<error, report, exit_status>>

\* extract(): `except Exception as e: logging.error(...); raise`
ExtractRaises == Fatal("extract")

Validate ==
    /\ pc = "validate"
    /\ LET check == FirstFailedCheck(drive_exists, source_exists, found, rsync_available)
       IN  /\ trace' = Append(trace, Event("validate", <<>>, check = "ok"))
           /\ run_log' = Logged(run_log,
                  <<Rec("header")>> \o PassedRecords(check)
                  \o (IF check = "ok" THEN <<>> ELSE <<Rec("error")>>))
           /\ IF check = "ok"
              THEN /\ tgz_files' = Sorted(found)
                   /\ pc' = "extract"
                   /\ UNCHANGED <<error, report, exit_status>>
              ELSE /\ Fatal(check)
                   /\ UNCHANGED tgz_files
    /\ UNCHANGED <<hist, i, members, scratch, dest, archives_processed, dryrun_log>>

\* extractor.extract(tgz_file) returns: every member was written.
ExtractOk(T) ==
    /\ pc = "extract"
    /\ members' = T
    /\ scratch' = Extracted(scratch, T)
    /\ trace' = Append(trace, Event("extract", Current, TRUE))
    /\ run_log' = Logged(run_log,
           <<Rec("processing"), Rec("extracting"), Rec("extracted")>>)
    /\ archive_paths' = archive_paths \cup DOMAIN T
    /\ pc' = IF NeedsPreview(i) THEN "preview" ELSE "merge"
    /\ UNCHANGED <<env, tgz_files, i, dest, exit_status, report, error,
                   archives_processed, dryrun_log>>

\* extractor.extract(tgz_file) raises after the members in W, a part of the
\* archive, were written.
ExtractFail(W) ==
    /\ pc = "extract"
    /\ members' = W
    /\ scratch' = Extracted(scratch, W)
    /\ trace' = Append(trace, Event("extract", Current, FALSE))
    /\ run_log' = Logged(run_log,
           <<Rec("processing"), Rec("extracting"), Rec("extract failed"),
             Rec("error")>>)
    /\ ExtractRaises
    /\ UNCHANGED <<hist, tgz_files, i, dest, archives_processed, dryrun_log>>

\* preview_merge(): the dry run exits 0, the prompt is shown next.
DryRunOk ==
    /\ pc = "preview"
    /\ dest' = RunRsync(scratch.files, dest, TRUE, Qualifying(scratch.files, dest))
    /\ trace' = Append(trace, Event("dryrun", Current, TRUE))
    /\ LET itemized == Qualifying(scratch.files, dest)
       IN  /\ dryrun_log' = Written(dryrun_log, RsyncOutput(Current, itemized))
           /\ run_log' = Logged(run_log,
                  <<Rec("dry run preview")>> \o UpdateRecords(itemized, dest, TRUE))
    /\ pc' = "prompt"
    /\ UNCHANGED <<hist, tgz_files, i, members, scratch, exit_status, report, error,
                   archives_processed>>

\* preview_merge(): the dry run exits non-zero, preview_merge returns False.
DryRunFail(done) ==
    /\ pc = "preview"
    /\ dest' = RunRsync(scratch.files, dest, TRUE, done)
    /\ trace' = Append(trace, Event("dryrun", Current, FALSE))
    /\ dryrun_log' = Written(dryrun_log, RsyncOutput(Current, done))
    /\ run_log' = Logged(run_log,
           <<Rec("dry run preview")>> \o UpdateRecords(done, dest, TRUE)
           \o <<Rec("dry run failed"), Rec("cancelled")>> \o CleanupRecords(scratch))
    /\ Cancel
    /\ UNCHANGED <<hist, tgz_files, i, members, archives_processed>>

\* input() returns `response`.
Prompt(response) ==
    /\ pc = "prompt"
    /\ trace' = Append(trace, Event("prompt", Current, Affirmative(response)))
    /\ IF Affirmative(response)
       THEN /\ pc' = "merge"
            /\ UNCHANGED <<scratch, exit_status, report, error, run_log>>
       ELSE /\ Cancel
            /\ run_log' = Logged(run_log,
                   <<Rec("cancelled")>> \o CleanupRecords(scratch))
    /\ UNCHANGED <<hist, tgz_files, i, members, dest, archives_processed, dryrun_log>>

\* input() raises EOFError: standard input is closed.
PromptEOF ==
    /\ pc = "prompt"
    /\ trace' = Append(trace, Event("prompt_eof", Current, FALSE))
    /\ run_log' = Logged(run_log, <<Rec("error")>>)
    /\ Fatal("eof")
    /\ UNCHANGED <<hist, tgz_files, i, members, scratch, dest, archives_processed,
                   dryrun_log>>

\* merger.merge(): rsync exits 0.
MergeOk ==
    /\ pc = "merge"
    /\ dest' = RunRsync(scratch.files, dest, FALSE, Qualifying(scratch.files, dest))
    /\ trace' = Append(trace, Event("merge", Current, TRUE))
    /\ LET itemized == Qualifying(scratch.files, dest)
       IN  run_log' = Logged(
               Written(Logged(run_log, <<Rec("merging")>>),
                       RsyncOutput(Current, itemized)),
               UpdateRecords(itemized, dest, FALSE) \o <<Rec("merge completed")>>)
    /\ pc' = "cleanup"
    /\ UNCHANGED <<hist, tgz_files, i, members, scratch, exit_status, report, error,
                   archives_processed, dryrun_log>>

\* merger.merge(): rsync exits non-zero after transferring the files in
\* `done`; merge() raises RuntimeError.
MergeFail(done) ==
    /\ pc = "merge"
    /\ dest' = RunRsync(scratch.files, dest, FALSE, done)
    /\ trace' = Append(trace, Event("merge", Current, FALSE))
    /\ run_log' = Logged(
           Written(Logged(run_log, <<Rec("merging")>>), RsyncOutput(Current, done)),
           UpdateRecords(done, dest, FALSE) \o <<Rec("error")>>)
    /\ Fatal("merge")
    /\ UNCHANGED <<hist, tgz_files, i, members, scratch, archives_processed,
                   dryrun_log>>

\* extractor.cleanup() at the end of the loop body, then the next archive.
CleanupStep ==
    /\ pc = "cleanup"
    /\ scratch' = Cleanup(scratch)
    /\ trace' = Append(trace, Event("cleanup", Current, TRUE))
    /\ run_log' = Logged(run_log, CleanupRecords(scratch))
    /\ members' = EmptyTree
    /\ IF i < Len(tgz_files)
       THEN /\ i' = i + 1
            /\ pc' = "extract"
       ELSE /\ pc' = "summary"
            /\ UNCHANGED i
    /\ UNCHANGED <<hist, tgz_files, dest, exit_status, report, error,
                   archives_processed, dryrun_log>>

\* _print_summary(start_time, len(tgz_files)), then run() and main() return.
PrintSummary ==
    /\ pc = "summary"
    /\ archives_processed' = ProcessedCount(tgz_files)
    /\ report' = "summary"
    /\ exit_status' = ExitStatus(FALSE)
    /\ run_log' = Logged(run_log,
           <<Rec("summary"), Rec("archives processed"), Rec("duration"),
             Rec("log file"), Rec("total files")>>)
    /\ pc' = "exited"
    /\ UNCHANGED <<hist, tgz_files, i, members, scratch, dest, error, trace,
                   dryrun_log>>

InterruptAsException ==
    /\ pc' = "exited"
    /\ error' = "KeyboardInterrupt"
    /\ report' = "fatal"
    /\ exit_status' = ExitStatus(TRUE)

\* KeyboardInterrupt is no Exception: it passes extract()'s and run()'s
\* `except Exception` and reaches main()'s `except KeyboardInterrupt`, which
\* prints "Operation cancelled by user" and calls sys.exit(1).
InterruptHandled ==
    /\ pc' = "exited"
    /\ error' = "KeyboardInterrupt"
    /\ report' = "interrupted"
    /\ exit_status' = ExitStatus(TRUE)

\* The archive the interrupted step was about, none during validation.
Interrupted == IF pc = "validate" THEN <<>> ELSE Current

\* Ctrl-C while run() is between two calls, or inside a call that has not
\* changed anything yet.
Interrupt ==
    /\ pc \in {"validate", "extract", "preview", "prompt", "merge", "cleanup",
               "summary"}
    /\ trace' = Append(trace, Event("interrupt", Interrupted, FALSE))
    /\ InterruptHandled
    /\ UNCHANGED <<hist, tgz_files, i, members, scratch, dest, archives_processed,
                   run_log, dryrun_log>>

\* Ctrl-C inside extract(), after the members in W, a part of the archive,
\* were written.
InterruptExtract(W) ==
    /\ pc = "extract"
    /\ members' = W
    /\ scratch' = Extracted(scratch, W)
    /\ trace' = Append(trace, Event("interrupt", Current, FALSE))
    /\ run_log' = Logged(run_log, <<Rec("processing"), Rec("extracting")>>)
    /\ InterruptHandled
    /\ UNCHANGED <<hist, tgz_files, i, dest, archives_processed, dryrun_log>>

\* Ctrl-C inside the mutating rsync, after the files in `done` were
\* transferred; subprocess.run raises before the output is written.
InterruptMerge(done) ==
    /\ pc = "merge"
    /\ dest' = RunRsync(scratch.files, dest, FALSE, done)
    /\ trace' = Append(trace, Event("interrupt", Current, FALSE))
    /\ run_log' = Logged(run_log, <<Rec("merging")>>)
    /\ InterruptHandled
    /\ UNCHANGED <<hist, tgz_files, i, members, scratch, archives_processed,
                   dryrun_log>>

\* Ctrl-C inside shutil.rmtree, with the files in `kept` not yet removed.
InterruptCleanup(kept) ==
    /\ pc = "cleanup"
    /\ scratch.exists
    /\ scratch' = [exists |-> TRUE, files |-> Restrict(scratch.files, kept)]
    /\ trace' = Append(trace, Event("interrupt", Current, FALSE))
    /\ InterruptHandled
    /\ UNCHANGED <<hist, tgz_files, i, members, dest, archives_processed,
                   run_log, dryrun_log>>

Next ==
    \/ Validate
    \/ \E T \in Trees : ExtractOk(T)
    \/ \E W \in Trees : ExtractFail(W)
    \/ DryRunOk
    \/ \E done \in SUBSET Qualifying(scratch.files, dest) : DryRunFail(done)
    \/ \E response \in Responses : Prompt(response)
    \/ PromptEOF
    \/ MergeOk
    \/ \E done \in SUBSET Qualifying(scratch.files, dest) : MergeFail(done)
    \/ CleanupStep
    \/ PrintSummary
    \/ Interrupt
    \/ \E W \in Trees : InterruptExtract(W)
    \/ \E done \in SUBSET Qualifying(scratch.files, dest) : InterruptMerge(done)
    \/ \E kept \in SUBSET (DOMAIN scratch.files) : InterruptCleanup(kept)

Spec == Init /\ [][Next]_vars

\* Every external call returns and run() goes on: no step waits forever.
FairSpec == Spec /\ WF_vars(Next)

\* ------------------------------------------- merge() and cleanup() re-run
\* How many calls of merge() and cleanup() are made on one scratch directory.
MaxCalls == 3

\* Archive 1 of 1 has been extracted into scratch and run() is about to call
\* merger.merge(): any scratch content against any destination.
InitOps ==
    /\ drive_exists = TRUE
    /\ source_exists = TRUE
    /\ rsync_available = TRUE
    /\ found = {<<1>>}
    /\ tgz_files = <<<<1>>>>
    /\ i = 1
    /\ scratch \in {[exists |-> TRUE, files |-> t] : t \in Trees}
    /\ members = scratch.files
    /\ archive_paths = DOMAIN scratch.files
    /\ dest \in Trees
    /\ dest0 = dest
    /\ pc = "merge"
    /\ exit_status = -1
    /\ report = "none"
    /\ error = "none"
    /\ archives_processed = 0
    /\ run_log = <<>>
    /\ dryrun_log = <<>>
    /\ trace = <<>>

\* merger.merge() or extractor.cleanup() is called once more with the scratch
\* directory and the destination as the calls so far left them, as a second
\* run over the same archive does after the first run ended in or after
\* its merge.
CallAgain(op) ==
    /\ Len(trace) < MaxCalls
    /\ op = "merge" => (pc \in {"cleanup", "exited"} /\ scratch.exists)
    /\ op = "cleanup" => pc \in {"summary", "exited"}
    /\ pc' = op
    /\ exit_status' = -1
    /\ report' = "none"
    /\ error' = "none"
    /\ UNCHANGED <<hist, tgz_files, i, members, scratch, dest,
                   archives_processed, run_log, dryrun_log, trace>>

NextOps ==
    \/ MergeOk
    \/ \E done \in SUBSET Qualifying(scratch.files, dest) : MergeFail(done)
    \/ \E done \in SUBSET Qualifying(scratch.files, dest) : InterruptMerge(done)
    \/ CleanupStep
    \/ \E op \in {"merge", "cleanup"} : CallAgain(op)

SpecOps == InitOps /\ [][NextOps]_vars

\* ------------------------------------------------------------------ claims
\* The positions in the trace of the calls of kind op.
Ops(op) == {j \in DOMAIN trace : trace[j][1] = op}

\* The user answered the prompt and the answer was accepted as 'y'.
Confirmed == \E j \in Ops("prompt") : trace[j][3]

\* The user answered the prompt and the answer was not accepted.
Declined == \E j \in Ops("prompt") : ~trace[j][3]

IsCycleStep(e) == e[1] \in {"extract", "merge", "cleanup"}

\* C1: while the prompt has not been answered affirmatively, no mutating
\* rsync invocation has been made and the destination tree equals its
\* content at the start of the run.
C1_NoMutationBeforeConfirmation ==
    ~Confirmed => (dest = dest0 /\ Ops("merge") = {})

\* The dry run has reported pending changes and the prompt is still open.
C1_Witness ==
    /\ pc = "prompt"
    /\ Ops("dryrun") # {}
    /\ Qualifying(scratch.files, dest) # {}

\* C2: a confirmed run without failure has performed exactly N
\* extract, merge, cleanup cycles, one per discovered archive, in
\* filename-sorted order, each cycle complete before the next one starts.
C2_ExactlyNCyclesInSortedOrder ==
    (pc = "exited" /\ Confirmed /\ \A j \in DOMAIN trace : trace[j][3]) =>
        LET steps == SelectSeq(trace, IsCycleStep)
            N == Cardinality(found)
            arc(k) == steps[3 * k - 2][2]
        IN  /\ Len(steps) = 3 * N
            /\ \A k \in 1..N :
                   /\ steps[3 * k - 2] = <<"extract", arc(k), TRUE>>
                   /\ steps[3 * k - 1] = <<"merge", arc(k), TRUE>>
                   /\ steps[3 * k] = <<"cleanup", arc(k), TRUE>>
            /\ {arc(k) : k \in 1..N} = found
            /\ \A k, l \in 1..N : k < l => LexLess(arc(k), arc(l))

\* A completed run over takeout-10.tgz and takeout-2.tgz.
C2_Witness ==
    /\ pc = "exited"
    /\ Confirmed
    /\ \A j \in DOMAIN trace : trace[j][3]
    /\ found = {<<1, 0>>, <<2>>}

\* C3: the prompt is shown at most once in a run, only in the first
\* archive's cycle, and every real merge comes after it; no later archive
\* is previewed or prompted for.
C3_PromptOnceBeforeFirstMerge ==
    LET prompts == Ops("prompt") \cup Ops("prompt_eof")
    IN  /\ Cardinality(prompts) <= 1
        /\ Cardinality(Ops("dryrun")) <= 1
        /\ \A p \in prompts \cup Ops("dryrun") : trace[p][2] = tgz_files[1]
        /\ Ops("merge") # {} =>
               /\ Cardinality(prompts) = 1
               /\ \A p \in prompts : \A m \in Ops("merge") : p < m

\* Two archives were merged after one confirmation.
C3_Witness ==
    /\ Confirmed
    /\ Cardinality(Ops("merge")) >= 2
    /\ pc = "exited"

\* C4: the scratch directory is absent or empty right before every
\* extraction and right after every cleanup, and at preview and merge time
\* it holds exactly the current archive's contents.
C4_ScratchEmptyAroundEveryCycle ==
    /\ pc \in {"extract", "summary"} =>
           (~scratch.exists \/ scratch.files = EmptyTree)
    /\ pc \in {"preview", "prompt", "merge"} => scratch.files = members

\* C5: after the prompt was declined the destination equals its content at
\* the start of the run, the scratch directory is gone, only the first
\* archive was ever extracted and the run is over.
C5_DeclineLeavesDestinationAndNoScratch ==
    Declined =>
        /\ dest = dest0
        /\ ~scratch.exists
        /\ Cardinality(Ops("extract")) = 1
        /\ Ops("merge") = {}
        /\ pc = "exited"

\* The prompt was declined although the first of several archives held
\* files the destination lacked.
C5_Witness ==
    /\ Declined
    /\ Len(tgz_files) >= 2
    /\ Qualifying(members, dest) # {}

\* C6: a run in which the user declined the prompt ends reported as
\* cancelled and with a non-zero exit status.
C6_DeclineExitsNonZero ==
    (Declined /\ pc = "exited") => (report = "cancelled" /\ exit_status # 0)

\* Some validation check fails in this environment.
AnyCheckFails ==
    ~drive_exists \/ ~source_exists \/ found = {} \/ ~rsync_available

\* C7: when a validation check fails no archive is ever extracted, the
\* destination keeps its initial content, the run goes from validation
\* straight to its end, and no step creates or changes the scratch directory.
C7_ValidationFailureTouchesNothing ==
    /\ [](AnyCheckFails =>
            /\ Ops("extract") = {}
            /\ dest = dest0
            /\ pc \in {"validate", "exited"})
    /\ [][AnyCheckFails => scratch' = scratch]_vars

\* Validation ended the run because rsync is missing, with archives
\* present and a scratch directory left by an earlier run still in place.
C7_Witness ==
    /\ pc = "exited"
    /\ ~rsync_available
    /\ found # {}
    /\ drive_exists
    /\ scratch.exists

\* C8: a failed extraction is the last call of the run: nothing of the
\* failing archive is previewed, merged or cleaned up, no later archive is
\* extracted, the scratch directory stays on disk with what was written,
\* and the failing step leaves the destination as the earlier merges made it.
C8_ExtractFailureStopsRun ==
    /\ [](\A j \in Ops("extract") :
            ~trace[j][3] =>
                /\ j = Len(trace)
                /\ pc = "exited"
                /\ scratch.exists
                /\ Cardinality(Ops("extract")) = i
                /\ trace[j][2] = tgz_files[i]
                /\ \A m \in (DOMAIN trace) \ {j} : trace[m][2] # trace[j][2])
    /\ [][(pc = "extract" /\ Ops("extract")' # Ops("extract")
              /\ ~trace'[Len(trace')][3]) =>
              /\ dest' = dest
              /\ \A p \in DOMAIN scratch.files : p \in DOMAIN scratch'.files]_vars

\* Extraction of the second archive failed after the first one was merged,
\* with part of the second archive written to the scratch directory.
C8_Witness ==
    /\ pc = "exited"
    /\ error = "extract"
    /\ i = 2
    /\ Cardinality(Ops("merge")) = 1
    /\ scratch.files # EmptyTree
    /\ dest # dest0

\* C9: when the run has ended after a failed mutating merge, cleanup has
\* run for that archive and the scratch directory is absent.
C9_CleanupAfterFailedMerge ==
    (pc = "exited" /\ \E m \in Ops("merge") : ~trace[m][3]) =>
        /\ ~scratch.exists
        /\ \E c \in Ops("cleanup") : trace[c][2] = tgz_files[i]

\* C10: a failed validation, extraction or mutating merge is the last call
\* of the run and the process exits non-zero reporting a fatal error;
\* validation runs once and no archive is extracted or merged twice.
C10_FatalExitsNonZeroNoRetry ==
    /\ \A j \in DOMAIN trace :
           (trace[j][1] \in {"validate", "extract", "merge"} /\ ~trace[j][3]) =>
               /\ j = Len(trace)
               /\ pc = "exited"
               /\ exit_status > 0
               /\ report = "fatal"
    /\ Cardinality(Ops("validate")) <= 1
    /\ \A j, k \in Ops("extract") \cup Ops("merge") :
           (trace[j][1] = trace[k][1] /\ trace[j][2] = trace[k][2]) => j = k

\* The mutating merge of the second archive failed and the run has ended.
C10_Witness ==
    /\ pc = "exited"
    /\ error = "merge"
    /\ i = 2

\* a is an initial part of b.
IsPrefix(a, b) == Len(a) <= Len(b) /\ SubSeq(b, 1, Len(a)) = a

\* The rsync outputs stored in a log file.
RsyncEntries(log) == {k \in DOMAIN log : log[k][1] = "rsync"}

\* C11: no step removes content from the run log, the run log holds the
\* rsync output of every real merge made so far and of nothing else, and
\* the dry run's output is in the separate .dryrun.log file.
C11_RunLogAppendOnly ==
    /\ [][IsPrefix(run_log, run_log')]_vars
    /\ [](/\ \A m \in Ops("merge") :
                \E k \in RsyncEntries(run_log) : run_log[k][2] = trace[m][2]
          /\ Cardinality(RsyncEntries(run_log)) = Cardinality(Ops("merge"))
          /\ Ops("dryrun") # {} => Cardinality(RsyncEntries(dryrun_log)) = 1)

\* C16: an interrupt is the last call of the run: the run is over, the
\* process exits non-zero, the cancellation was reported by main()'s
\* interrupt handler and not as a fatal error, and no summary was printed;
\* the interrupted step removes neither the scratch directory, nor a file of
\* the destination, nor anything from the log files.
C16_InterruptAbortsImmediately ==
    /\ [](\A j \in Ops("interrupt") :
            /\ j = Len(trace)
            /\ pc = "exited"
            /\ exit_status > 0
            /\ report = "interrupted"
            /\ archives_processed = 0)
    /\ [][Ops("interrupt")' # Ops("interrupt") =>
              /\ scratch.exists => scratch'.exists
              /\ \A p \in DOMAIN dest : p \in DOMAIN dest'
              /\ IsPrefix(run_log, run_log')
              /\ dryrun_log' = dryrun_log]_vars

\* The run was interrupted during the second archive, after the first one
\* was merged, and the scratch directory is still on disk with files in it.
C16_Witness ==
    /\ Ops("interrupt") # {}
    /\ i = 2
    /\ dest # dest0
    /\ scratch.exists
    /\ scratch.files # EmptyTree

\* The step is a mutating rsync that exited 0.
MergeOkStep ==
    /\ Ops("merge")' # Ops("merge")
    /\ trace'[Len(trace')][3]

\* The files itemized by the rsync output stored in a log file.
Itemized(log) == UNION {log[k][3] : k \in RsyncEntries(log)}

C15_RsyncFailureIsFatal ==
    \A j \in Ops("dryrun") \cup Ops("merge") :
        ~trace[j][3] =>
            /\ pc = "exited"
            /\ report = "fatal"
            /\ exit_status # 0
            /\ \A k \in Ops("prompt") \cup Ops("prompt_eof") : k < j

\* The checks in the order the claim gives them.
CheckOrder == <<"drive", "source", "no_archives", "rsync">>

\* The check named c fails in this environment.
CheckFails(c) ==
    CASE c = "drive" -> ~drive_exists
      [] c = "source" -> ~source_exists
      [] c = "no_archives" -> found = {}
      [] c = "rsync" -> ~rsync_available

\* The record logged when the k-th check passes.
PassRecord(k) ==
    <<Rec("drive ok"), Rec("source ok"), Rec("found"), Rec("rsync ok")>>[k]

\* C17: right after validation the log shows the checks passed in the fixed
\* order drive, source, archives, rsync up to the first failing one, that
\* check is the reported error, no later check was logged and no archive
\* list was returned; when no check fails all four were logged as passed
\* and the archive list holds the archives found, in lexicographic order.
C17_ValidationOrder ==
    (Len(trace) = 1 /\ trace[1][1] = "validate") =>
        LET failing == {k \in 1..4 : CheckFails(CheckOrder[k])}
        IN  IF failing # {}
            THEN LET f == CHOOSE k \in failing : \A l \in failing : k <= l
                 IN  /\ pc = "exited"
                     /\ ~trace[1][3]
                     /\ error = CheckOrder[f]
                     /\ run_log = <<Rec("header")>>
                                  \o [k \in 1..(f - 1) |-> PassRecord(k)]
                                  \o <<Rec("error")>>
                     /\ tgz_files = <<>>
            ELSE /\ pc = "extract"
                 /\ trace[1][3]
                 /\ error = "none"
                 /\ run_log = <<Rec("header")>> \o [k \in 1..4 |-> PassRecord(k)]
                 /\ {tgz_files[k] : k \in DOMAIN tgz_files} = found
                 /\ Len(tgz_files) = Cardinality(found)
                 /\ \A k, l \in DOMAIN tgz_files :
                        k < l => LexLess(tgz_files[k], tgz_files[l])

\* Validation stopped at the missing source directory although the drive
\* check had passed and the rsync check would have failed too.
C17_Witness ==
    /\ Len(trace) = 1
    /\ pc = "exited"
    /\ drive_exists
    /\ ~source_exists
    /\ ~rsync_available
    /\ error = "source"

\* Every archive found went through a successful extract, merge and cleanup.
AllCyclesDone ==
    \A a \in found :
        \A op \in {"extract", "merge", "cleanup"} :
            \E j \in Ops(op) : trace[j][2] = a /\ trace[j][3]

\* C18 as stated: a run that has ended printed the summary exactly when all
\* N archives were extracted, merged and cleaned up successfully.  Ctrl-C
\* between the last cleanup and _print_summary ends the run without it.
C18_SummaryIffAllCyclesDone ==
    pc = "exited" => (report = "summary" <=> (AllCyclesDone /\ found # {}))

\* C18 amended: every run ends; a run that has ended reported exactly one of
\* completion (the summary), cancellation or abort (a fatal error or an
\* interrupt); and the summary is printed, and then counts all N archives,
\* exactly when every archive was extracted, merged and cleaned up
\* successfully and no interrupt arrived before the summary.
C18_TerminatesInOneOutcome ==
    /\ <>(pc = "exited")
    /\ [](pc = "exited" =>
            /\ report \in {"summary", "cancelled", "fatal", "interrupted"}
            /\ report = "summary" <=>
                   (AllCyclesDone /\ found # {} /\ Ops("interrupt") = {}
                      /\ \A j \in DOMAIN trace : trace[j][3])
            /\ report = "summary" <=> archives_processed # 0
            /\ report = "summary" => archives_processed = Cardinality(found)
            /\ report = "summary" => exit_status = 0)
    /\ [](pc # "exited" => (report = "none" /\ archives_processed = 0))

\* A run over two archives has ended with the summary.
C18_Witness ==
    /\ pc = "exited"
    /\ report = "summary"
    /\ archives_processed = 2

\* The call that ended last was a merge and rsync exited 0.
LastMergeOk == trace # <<>> /\ trace[Len(trace)] = Event("merge", Current, TRUE)

\* The files itemized by the last rsync output stored in a log file.
LastItemized(log) ==
    LET k == CHOOSE e \in RsyncEntries(log) : \A f \in RsyncEntries(log) : f <= e
    IN  log[k][3]

\* C14: a successful merge made right after a successful merge of the same
\* scratch content transfers no file and leaves the destination as it was;
\* and a successful merge made after any number of failed or interrupted
\* merges of the same scratch content leaves the destination as one
\* successful merge of the original destination would have.
C14_ApplyIsIdempotent ==
    /\ [][(LastMergeOk /\ MergeOkStep) =>
            (dest' = dest /\ LastItemized(run_log') = {})]_vars
    /\ [](LastMergeOk =>
            dest = Transferred(scratch.files, dest0,
                               Qualifying(scratch.files, dest0)))

\* A merge that stopped early was followed by two successful merges, and the
\* destination ended with two files and differs from the original.
C14_Witness ==
    /\ Len(trace) = 3
    /\ ~trace[1][3]
    /\ trace[2] = Event("merge", Current, TRUE)
    /\ trace[3] = Event("merge", Current, TRUE)
    /\ Cardinality(DOMAIN dest) = 2
    /\ dest # dest0
    /\ LastItemized(run_log) = {}

\* This step is a call of extractor.cleanup().
CleanupCall == Ops("cleanup")' # Ops("cleanup")

\* C19: every cleanup call returns normally and leaves no scratch directory;
\* on an absent scratch directory it changes nothing and logs nothing, so a
\* second call in a row leaves the state of the first; and it changes
\* neither the destination nor the source archives.
C19_CleanupIsIdempotent ==
    [][CleanupCall =>
        /\ scratch' = Absent
        /\ ~scratch.exists => (scratch' = scratch /\ run_log' = run_log)
        /\ dest' = dest
        /\ found' = found
        /\ tgz_files' = tgz_files
        /\ exit_status' = exit_status
        /\ error' = "none"]_vars

\* A merge was followed by two cleanup calls in a row: the scratch directory
\* is gone, its removal was logged once, and the destination holds files.
C19_Witness ==
    /\ Len(trace) = 3
    /\ trace[1] = Event("merge", Current, TRUE)
    /\ trace[2][1] = "cleanup"
    /\ trace[3][1] = "cleanup"
    /\ scratch = Absent
    /\ Cardinality({k \in DOMAIN run_log : run_log[k] = Rec("cleaned")}) = 1
    /\ dest # EmptyTree

====
